---- MODULE Spec2Model ----
(***************************************************************************)
(* A model of MithrilSync (src/MithrilSync.js): the flatten / rebuild /    *)
(* merge / watch / applyChanges engine, the instance facade built on it    *)
(* and the polling watcher.                                                *)
(*                                                                         *)
(* JavaScript objects are reference values.  Entries produced by the       *)
(* container-inclusive flatten carry references to the containers they     *)
(* were read from, and rebuild / applyChanges write through them, so the   *)
(* model keeps an explicit heap: an address |-> object map.                *)
(***************************************************************************)
EXTENDS Integers, Sequences, FiniteSets, TLC

VARIABLES heap, original, entries, watcher, timers, nextTimer, lastDiff,
          calls, dirty, ops, res

vars == <<heap, original, entries, watcher, timers, nextTimer, lastDiff,
          calls, dirty, ops, res>>

(***************************************************************************)
(* Values.  A scalar is a record [t, v]: t its runtime category, v its     *)
(* string form.  A container value is a reference [t, a]: a is the heap    *)
(* address of the container.                                               *)
(***************************************************************************)
Str(s) == [t |-> "string", v |-> s]

Num(s) == [t |-> "number", v |-> s]

Null == [t |-> "null", v |-> "null"]

Undef == [t |-> "undefined", v |-> "undefined"]

Ref(a) == [t |-> "ref", a |-> a]

IsRef(x) == x.t = "ref"

Range(f) == {f[i] : i \in DOMAIN f}

\* Literal structures (the inputs): a scalar, or [t |-> "object"|"array",
\* items |-> <<<<key, literal>>, ...>>], array elements keyed "0", "1", ...
Obj(pairs) == [t |-> "object", items |-> pairs]

Arr(pairs) == [t |-> "array", items |-> pairs]

IsContainerLit(l) == l.t \in {"object", "array"}

\* The decimal strings of the array indices the model uses, in order.
IndexKeys == <<"0", "1", "2", "3">>

IsIndexKey(k) == \E i \in 1..Len(IndexKeys) : IndexKeys[i] = k

IndexOf(k) == (CHOOSE i \in 1..Len(IndexKeys) : IndexKeys[i] = k) - 1

IndexStr(n) == IndexKeys[n + 1]

\* Every property key of the model, in a fixed order used only to compare
\* structures irrespective of property order.
KeyOrder == <<"", "0", "1", "2", "3", "a", "b", "n", "u", "x", "y", "length">>

(***************************************************************************)
(* Heap objects: [kind, props, len].  props is the own-property list in    *)
(* JavaScript's enumeration order (integer-like keys ascending, then the   *)
(* other keys in insertion order); len is an array's length.               *)
(***************************************************************************)
EmptyObject == [kind |-> "object", props |-> <<>>, len |-> 0]

EmptyArray == [kind |-> "array", props |-> <<>>, len |-> 0]

NewAddr(h) ==
    CHOOSE a \in 1..(Cardinality(DOMAIN h) + 1) :
        a \notin DOMAIN h /\ \A b \in 1..(a - 1) : b \in DOMAIN h

Alloc(h, o) == [a \in DOMAIN h \cup {NewAddr(h)} |-> IF a \in DOMAIN h THEN h[a] ELSE o]

PropIndex(o, k) ==
    IF \E i \in 1..Len(o.props) : o.props[i].k = k
    THEN CHOOSE i \in 1..Len(o.props) : o.props[i].k = k
    ELSE 0

\* key in ref
HasProp(h, a, k) == PropIndex(h[a], k) # 0

\* ref[key] (undefined when absent)
GetProp(h, a, k) ==
    IF HasProp(h, a, k) THEN h[a].props[PropIndex(h[a], k)].v ELSE Undef

\* Where a new key goes in the enumeration order.
InsertAt(props, k) ==
    IF IsIndexKey(k)
    THEN Cardinality({i \in 1..Len(props) :
                        IsIndexKey(props[i].k) /\ IndexOf(props[i].k) < IndexOf(k)})
    ELSE Len(props)

ObjSet(o, k, val) ==
    LET i == PropIndex(o, k)
        at == InsertAt(o.props, k)
        newProps == IF i # 0
                    THEN [o.props EXCEPT ![i] = [k |-> k, v |-> val]]
                    ELSE SubSeq(o.props, 1, at) \o <<[k |-> k, v |-> val]>>
                         \o SubSeq(o.props, at + 1, Len(o.props))
        newLen == IF o.kind = "array" /\ IsIndexKey(k) /\ IndexOf(k) + 1 > o.len
                  THEN IndexOf(k) + 1 ELSE o.len
    IN [kind |-> o.kind, props |-> newProps, len |-> newLen]

\* ref[key] = value
SetProp(h, a, k, val) == [h EXCEPT ![a] = ObjSet(h[a], k, val)]

\* delete ref[key] (an array keeps its length)
DelProp(h, a, k) ==
    [h EXCEPT ![a] = [kind |-> h[a].kind,
                      props |-> SelectSeq(h[a].props, LAMBDA p : p.k # k),
                      len |-> h[a].len]]

(***************************************************************************)
(* Building a literal in the heap, deep copies and structural comparison.  *)
(***************************************************************************)
RECURSIVE Build(_, _)
RECURSIVE BuildProps(_, _, _, _)
BuildProps(h, a, pairs, i) ==
    IF i > Len(pairs) THEN h
    ELSE LET b == Build(h, pairs[i][2])
             h1 == IF h[a].kind = "array" /\ pairs[i][1] = "length"
                   THEN [b.h EXCEPT ![a].len = IndexOf(pairs[i][2].v)]
                   ELSE SetProp(b.h, a, pairs[i][1], b.val)
         IN BuildProps(h1, a, pairs, i + 1)

\* [h |-> the heap with the literal in it, val |-> its value]
Build(h, lit) ==
    IF ~IsContainerLit(lit) THEN [h |-> h, val |-> lit]
    ELSE LET a == NewAddr(h)
             h0 == Alloc(h, IF lit.t = "array" THEN EmptyArray ELSE EmptyObject)
         IN [h |-> BuildProps(h0, a, lit.items, 1), val |-> Ref(a)]

\* The structure a value stands for, properties in KeyOrder: two values are
\* structurally equal iff their Deep forms are equal.  An array also shows
\* its length.
RECURSIVE Deep(_, _)
Deep(h, val) ==
    IF ~IsRef(val) THEN val
    ELSE LET o == h[val.a]
             present == SelectSeq(KeyOrder, LAMBDA k : PropIndex(o, k) # 0)
             pairs == [i \in 1..Len(present) |->
                          <<present[i], Deep(h, o.props[PropIndex(o, present[i])].v)>>]
         IN [t |-> o.kind,
             items |-> IF o.kind = "array"
                   THEN pairs \o << <<"length", Num(IndexStr(o.len))>> >>
                   ELSE pairs]

\* The literal with its property order kept (what a deep copy is made from);
\* an array's literal ends with its length.
RECURSIVE Lit(_, _)
Lit(h, val) ==
    IF ~IsRef(val) THEN val
    ELSE LET o == h[val.a]
             pairs == [i \in 1..Len(o.props) |-> <<o.props[i].k, Lit(h, o.props[i].v)>>]
         IN [t |-> o.kind,
             items |-> IF o.kind = "array"
                   THEN pairs \o << <<"length", Num(IndexStr(o.len))>> >>
                   ELSE pairs]

\* structuredClone(value): a copy that shares nothing with value.
StructuredClone(h, val) ==
    IF ~IsRef(val) THEN [h |-> h, val |-> val]
    ELSE Build(h, Lit(h, val))

(***************************************************************************)
(* Paths.  A step is a field name (a string) or an index (a number); a     *)
(* dotPath is the '.'-joined string of a path.  No key of the model        *)
(* contains '.', so a dotPath is kept as the sequence of its segments:     *)
(* what dotPath.split('.') returns.  Joining drops the steps' types.       *)
(***************************************************************************)
StepS(k) == [t |-> "string", v |-> k]

StepN(k) == [t |-> "number", v |-> k]

\* path.join('.'), as its segments: [] joins to '', whose one segment is ''.
DotPath(path) ==
    IF path = <<>> THEN <<"">> ELSE [i \in 1..Len(path) |-> path[i].v]

\* isNaN(k) for a segment k: '' and the index strings convert to a number.
IsNaNKey(k) == ~(IsIndexKey(k) \/ k = "")

\* dotPath.split('.').map(k => isNaN(k) ? k : +k)
ParsePath(dotPath) ==
    [i \in 1..Len(dotPath) |->
        IF IsNaNKey(dotPath[i]) THEN StepS(dotPath[i])
        ELSE StepN(IF dotPath[i] = "" THEN "0" ELSE dotPath[i])]

\* The kind tag flatten records for a value.
KindOf(h, val) ==
    IF IsRef(val) THEN h[val.a].kind
    ELSE IF val.t = "null" THEN "object" ELSE val.t

\* The work-list items flatten pushes for the children of a node, in push
\* order: array elements by forEach (indices only, holes skipped), object
\* properties by Object.entries.
Children(h, current, path) ==
    IF ~IsRef(current) THEN <<>>
    ELSE LET o == h[current.a]
             ps == IF o.kind = "array"
                   THEN SelectSeq(o.props, LAMBDA p : IsIndexKey(p.k))
                   ELSE o.props
         IN [i \in 1..Len(ps) |->
                [current |-> ps[i].v,
                 path |-> Append(path, IF o.kind = "array" THEN StepN(ps[i].k)
                                                            ELSE StepS(ps[i].k))]]

MkEntry(h, path, current) ==
    [path |-> path, dotPath |-> DotPath(path), key |-> path[Len(path)],
     value |-> current, kind |-> KindOf(h, current)]

\* The while loop of flatten: pop the last item, record it unless it is the
\* root, push its children.
RECURSIVE FlattenLoop(_, _, _)
FlattenLoop(h, stack, results) ==
    IF stack = <<>> THEN results
    ELSE LET top == stack[Len(stack)]
             rest == SubSeq(stack, 1, Len(stack) - 1)
         IN FlattenLoop(h, rest \o Children(h, top.current, top.path),
                        IF top.path # <<>>
                        THEN Append(results, MkEntry(h, top.path, top.current))
                        ELSE results)

\* MithrilSync.flatten(obj): one entry per node below the root, containers
\* included, each container entry holding the container itself.
Flatten(h, obj) == FlattenLoop(h, <<[current |-> obj, path |-> <<>>]>>, <<>>)

\* The leaf-only flatten of the file's first class: entries for non-container
\* values only (the root too, when it is one), no key field.
RECURSIVE FlattenLeavesLoop(_, _, _)
FlattenLeavesLoop(h, stack, results) ==
    IF stack = <<>> THEN results
    ELSE LET top == stack[Len(stack)]
             rest == SubSeq(stack, 1, Len(stack) - 1)
         IN FlattenLeavesLoop(h, rest \o Children(h, top.current, top.path),
                              IF ~IsRef(top.current)
                              THEN Append(results,
                                          [path |-> top.path, dotPath |-> DotPath(top.path),
                                           key |-> Undef, value |-> top.current,
                                           kind |-> KindOf(h, top.current)])
                              ELSE results)

FlattenLeaves(h, obj) == FlattenLeavesLoop(h, <<[current |-> obj, path |-> <<>>]>>, <<>>)

\* The inner for loop of rebuild for one entry, from step i at object ref.
RECURSIVE RebuildWalk(_, _, _, _, _)
RebuildWalk(h, ref, path, i, value) ==
    IF i > Len(path) THEN h
    ELSE IF i = Len(path) THEN SetProp(h, ref, path[i].v, value)
    ELSE LET key == path[i].v
             fresh == NewAddr(h)
             h1 == IF HasProp(h, ref, key) THEN h
                   ELSE SetProp(Alloc(h, IF path[i + 1].t = "number"
                                         THEN EmptyArray ELSE EmptyObject),
                                ref, key, Ref(fresh))
         IN RebuildWalk(h1, GetProp(h1, ref, key).a, path, i + 1, value)

RECURSIVE RebuildLoop(_, _, _, _)
RebuildLoop(h, root, es, n) ==
    IF n > Len(es) THEN h
    ELSE RebuildLoop(RebuildWalk(h, root, es[n].path, 1, es[n].value), root, es, n + 1)

\* MithrilSync.rebuild(entries): [h |-> the heap afterwards, val |-> result].
\* The result is always a fresh plain object; a container entry's value is
\* stored as it is, so the result shares it with the entry.
Rebuild(h, es) ==
    LET root == NewAddr(h)
    IN [h |-> RebuildLoop(Alloc(h, EmptyObject), root, es, 1), val |-> Ref(root)]

\* The for loop of merge over Object.entries(source), taken before the loop.
RECURSIVE MergeLoop(_, _, _, _)
MergeLoop(h, target, sprops, i) ==
    IF i > Len(sprops) THEN h
    ELSE LET key == sprops[i].k
             value == sprops[i].v
             tv == GetProp(h, target, key)
             h1 == IF IsRef(value) /\ IsRef(tv)
                   THEN SetProp(MergeLoop(h, tv.a, h[value.a].props, 1), target, key, tv)
                   ELSE SetProp(h, target, key, value)
         IN MergeLoop(h1, target, sprops, i + 1)

\* MithrilSync.merge(target, source), in place: the heap afterwards.  Both
\* sides "typeof object and not null" recurses, arrays included; anything
\* else stores the source's value (a container by reference).
Merge(h, target, source) == MergeLoop(h, target.a, h[source.a].props, 1)


(***************************************************************************)
(* watch: the diff of two entry lists.                                     *)
(***************************************************************************)
\* The decimal strings a string converts to a number from: '' is 0.
ToNumberStr(sv) == IF sv = "" THEN "0" ELSE sv

IsNumericStr(sv) == sv = "" \/ IsIndexKey(sv) \/ sv \in {"30"}

\* String(value) of a container: '[object Object]', or an array's elements
\* joined by ',' (null and undefined as ''); any join of two or more
\* elements is a string with a comma, which no scalar of the model has.
RECURSIVE ToPrimitive(_, _)
ToPrimitive(h, val) ==
    IF ~IsRef(val) THEN val
    ELSE IF h[val.a].kind = "object" THEN Str("[object Object]")
    ELSE IF h[val.a].len = 0 THEN Str("")
    ELSE IF h[val.a].len > 1 THEN Str(",")
    ELSE LET e == ToPrimitive(h, GetProp(h, val.a, "0"))
         IN IF e.t \in {"null", "undefined"} THEN Str("") ELSE Str(e.v)

\* a == b on primitives
LooseEqPrim(a, b) ==
    IF a.t = b.t THEN a = b
    ELSE IF a.t \in {"null", "undefined"} \/ b.t \in {"null", "undefined"}
         THEN a.t \in {"null", "undefined"} /\ b.t \in {"null", "undefined"}
    ELSE IF a.t = "number" THEN IsNumericStr(b.v) /\ ToNumberStr(b.v) = a.v
    ELSE IsNumericStr(a.v) /\ ToNumberStr(a.v) = b.v

\* a == b: two containers are equal only when they are the same object.
LooseEq(h, a, b) ==
    IF IsRef(a) /\ IsRef(b) THEN a = b
    ELSE IF (IsRef(a) /\ b.t \in {"null", "undefined"})
            \/ (IsRef(b) /\ a.t \in {"null", "undefined"}) THEN FALSE
    ELSE LooseEqPrim(ToPrimitive(h, a), ToPrimitive(h, b))

\* a === b
StrictEq(a, b) == a = b

\* JSON.stringify(value), as the structure it writes: properties in
\* enumeration order, undefined properties left out, array holes and
\* undefined elements written as null; undefined itself gives undefined.
RECURSIVE Json(_, _)
Json(h, val) ==
    IF ~IsRef(val) THEN val
    ELSE LET o == h[val.a]
         IN IF o.kind = "array"
            THEN [t |-> "array",
                  items |-> [i \in 1..o.len |->
                            LET e == GetProp(h, val.a, IndexStr(i - 1))
                            IN IF e.t = "undefined" THEN Null ELSE Json(h, e)]]
            ELSE LET ps == SelectSeq(o.props, LAMBDA p : p.v.t # "undefined")
                 IN [t |-> "object",
                     items |-> [i \in 1..Len(ps) |-> <<ps[i].k, Json(h, ps[i].v)>>]]

DefaultOptions == [deepCompare |-> FALSE, strictTypes |-> FALSE]

IsDifferent(h, old, new, options) ==
    IF options.deepCompare THEN Json(h, old) # Json(h, new)
    ELSE IF options.strictTypes THEN ~StrictEq(old, new)
    ELSE ~LooseEq(h, old, new)

\* A dotPath that is an integer-like property name: those come first, in
\* ascending order, when an object's keys are listed.
IsIndexPath(dp) == Len(dp) = 1 /\ IsIndexKey(dp[1])

MapIndex(m, dp) ==
    IF \E i \in 1..Len(m) : m[i].dp = dp
    THEN CHOOSE i \in 1..Len(m) : m[i].dp = dp
    ELSE 0

MapSet(m, dp, val) ==
    LET i == MapIndex(m, dp)
        at == IF IsIndexPath(dp)
              THEN Cardinality({j \in 1..Len(m) :
                        IsIndexPath(m[j].dp) /\ IndexOf(m[j].dp[1]) < IndexOf(dp[1])})
              ELSE Len(m)
    IN IF i # 0 THEN [m EXCEPT ![i] = [dp |-> dp, v |-> val]]
       ELSE SubSeq(m, 1, at) \o <<[dp |-> dp, v |-> val]>> \o SubSeq(m, at + 1, Len(m))

\* toMap: Object.fromEntries of the [dotPath, value] pairs (the last entry
\* of a dotPath gives its value).
RECURSIVE ToMap(_, _, _)
ToMap(es, i, m) ==
    IF i > Len(es) THEN m
    ELSE ToMap(es, i + 1, MapSet(m, es[i].dotPath, es[i].value))

AllPathsNewFirst(oldMap, newMap) ==
    [i \in 1..Len(newMap) |-> newMap[i].dp]
    \o [i \in 1..Len(SelectSeq(oldMap, LAMBDA e : MapIndex(newMap, e.dp) = 0)) |->
            SelectSeq(oldMap, LAMBDA e : MapIndex(newMap, e.dp) = 0)[i].dp]

\* new Set([...Object.keys(oldMap), ...Object.keys(newMap)]), in order.
AllPaths(oldMap, newMap) ==
    [i \in 1..Len(oldMap) |-> oldMap[i].dp]
    \o [i \in 1..Len(SelectSeq(newMap, LAMBDA e : MapIndex(oldMap, e.dp) = 0)) |->
            SelectSeq(newMap, LAMBDA e : MapIndex(oldMap, e.dp) = 0)[i].dp]

Change(type, path, value, oldValue, newValue) ==
    [type |-> type, path |-> path, value |-> value,
     oldValue |-> oldValue, newValue |-> newValue]

RECURSIVE WatchLoop(_, _, _, _, _, _, _)
WatchLoop(h, oldMap, newMap, paths, i, options, changes) ==
    IF i > Len(paths) THEN changes
    ELSE LET path == paths[i]
             o == MapIndex(oldMap, path)
             n == MapIndex(newMap, path)
             next ==
                 IF o = 0
                 THEN Append(changes, Change("added", path, newMap[n].v, Undef, Undef))
                 ELSE IF n = 0
                 THEN Append(changes, Change("removed", path, Undef, oldMap[o].v, Undef))
                 ELSE IF IsDifferent(h, oldMap[o].v, newMap[n].v, options)
                 THEN Append(changes,
                             Change("modified", path, Undef, oldMap[o].v, newMap[n].v))
                 ELSE changes
         IN WatchLoop(h, oldMap, newMap, paths, i + 1, options, next)

\* MithrilSync.watch(oldEntries, newEntries, options)
Watch(h, oldEntries, newEntries, options) ==
    LET oldMap == ToMap(oldEntries, 1, <<>>)
        newMap == ToMap(newEntries, 1, <<>>)
    IN WatchLoop(h, oldMap, newMap, AllPaths(oldMap, newMap), 1, options, <<>>)

(***************************************************************************)
(* applyChanges                                                            *)
(***************************************************************************)
\* The outcome of a call that threw a TypeError.
TypeError == [t |-> "error", v |-> "TypeError"]

\* str.length for the strings of the model.
StringLength(sv) ==
    IF sv = "" THEN 0
    ELSE IF sv \in {"John", "Jane", "john"} THEN 4
    ELSE IF sv = "nickname" THEN 8
    ELSE 1

\* The navigation loop: [h |-> heap, ref |-> the value the last key is looked
\* up in, threw |-> whether `keys[i] in ref` threw, ref not being an object].
RECURSIVE ApplyNav(_, _, _, _)
ApplyNav(h, ref, keys, i) ==
    IF i > Len(keys) - 1 THEN [h |-> h, ref |-> ref, threw |-> FALSE]
    ELSE IF ~IsRef(ref) THEN [h |-> h, ref |-> ref, threw |-> TRUE]
    ELSE LET fresh == NewAddr(h)
             h1 == IF HasProp(h, ref.a, keys[i]) THEN h
                   ELSE SetProp(Alloc(h, EmptyObject), ref.a, keys[i], Ref(fresh))
         IN ApplyNav(h1, GetProp(h1, ref.a, keys[i]), keys, i + 1)

\* change.value ?? change.newValue
ValueToSet(change) ==
    IF change.value.t \in {"null", "undefined"} THEN change.newValue ELSE change.value

\* Whether `delete ref[lastKey]` throws for a ref that is not an object: on
\* null and undefined, and (strict mode) on a string's own index or length.
DeleteThrows(ref, lastKey) ==
    \/ ref.t \in {"null", "undefined"}
    \/ /\ ref.t = "string"
       /\ \/ lastKey = "length"
          \/ IsIndexKey(lastKey) /\ IndexOf(lastKey) < StringLength(ref.v)

\* One iteration of applyChanges: [h |-> heap, threw |-> whether it threw].
\* Reading change.path of undefined throws; so does, in the strict mode of a
\* class body, an assignment to a property of a value that is not an object.
ApplyOne(h, target, change) ==
    IF change = Undef THEN [h |-> h, threw |-> TRUE]
    ELSE LET nav == ApplyNav(h, target, change.path, 1)
             lastKey == change.path[Len(change.path)]
         IN IF nav.threw THEN [h |-> nav.h, threw |-> TRUE]
            ELSE IF ~IsRef(nav.ref)
            THEN [h |-> nav.h,
                  threw |-> IF change.type = "removed"
                            THEN DeleteThrows(nav.ref, lastKey) ELSE TRUE]
            ELSE IF change.type = "removed"
            THEN [h |-> DelProp(nav.h, nav.ref.a, lastKey), threw |-> FALSE]
            ELSE [h |-> SetProp(nav.h, nav.ref.a, lastKey, ValueToSet(change)),
                  threw |-> FALSE]

\* MithrilSync.applyChanges(target, changes), in place: the heap afterwards
\* and whether the call threw (the changes before the throwing one stay).
RECURSIVE ApplyChanges(_, _, _, _)
ApplyChanges(h, target, changes, i) ==
    IF i > Len(changes) THEN [h |-> h, threw |-> FALSE]
    ELSE LET one == ApplyOne(h, target, changes[i])
         IN IF one.threw THEN one
            ELSE ApplyChanges(one.h, target, changes, i + 1)

\* The inverse change revertChanges builds for one change.
Reverse(change) ==
    IF change.type = "added"
    THEN Change("removed", change.path, Undef, Undef, Undef)
    ELSE IF change.type = "removed"
    THEN Change("added", change.path, change.oldValue, Undef, Undef)
    ELSE IF change.type = "modified"
    THEN Change("modified", change.path, Undef, change.newValue, change.oldValue)
    ELSE Undef

(***************************************************************************)
(* find                                                                    *)
(***************************************************************************)
\* str.toLowerCase() on the strings of the model.
ToLowerCase(sv) == IF sv = "John" THEN "john" ELSE IF sv = "Jane" THEN "jane" ELSE sv

\* typeof val
TypeOf(val) == IF IsRef(val) \/ val.t = "null" THEN "object" ELSE val.t

\* String(input)
StringOf(h, val) == ToPrimitive(h, val).v

\* typeof t === 'string' && t.trim(): the model's strings have no blanks.
UsableTarget(tg) == tg # ""

\* The ordered target list find builds from target and fallbacks.
Targets(options) ==
    (IF UsableTarget(options.target) THEN <<options.target>> ELSE <<>>)
    \o SelectSeq(options.fallbacks, UsableTarget)

\* isMatch(input) for the target search (useRegex is false)
IsMatch(sv, search, options) ==
    IF options.caseInsensitive THEN ToLowerCase(sv) = ToLowerCase(search)
    ELSE sv = search

\* The filters that skip an entry before it is tested.
Skipped(entry, options) ==
    \/ options.onlyTypes # {} /\ TypeOf(entry.value) \notin options.onlyTypes
    \/ ~options.includeNull /\ entry.value.t = "null"
    \/ ~options.includeUndefined /\ entry.value.t = "undefined"
    \/ ~options.includeEmptyString /\ entry.value = Str("")

\* Whether an entry that is not skipped matches the target search.
EntryMatches(h, entry, search, options) ==
    \/ options.matchKeys /\ IsMatch(entry.path[Len(entry.path)].v, search, options)
    \/ options.matchValues /\ IsMatch(StringOf(h, entry.value), search, options)

\* What find records for a matched entry.
Projected(entry, options) ==
    IF options.returnFormat = "dotPaths" THEN [dotPath |-> entry.dotPath]
    ELSE IF options.returnFormat = "entriesOnly" THEN entry
    ELSE [key |-> entry.path[Len(entry.path)], value |-> entry.value,
          path |-> entry.path, dotPath |-> entry.dotPath]

\* The two nested for loops of find, at target t and entry e; st is
\* [seen, results, done]: done once the first match has returned.
RECURSIVE FindLoop(_, _, _, _, _, _, _)
FindLoop(h, es, targets, options, t, e, st) ==
    IF st.done \/ t > Len(targets) THEN st
    ELSE IF e > Len(es) THEN FindLoop(h, es, targets, options, t + 1, 1, st)
    ELSE LET entry == es[e]
             hit == /\ ~Skipped(entry, options)
                    /\ EntryMatches(h, entry, targets[t], options)
                    /\ entry.dotPath \notin st.seen
             st1 == IF hit
                    THEN [seen |-> st.seen \cup {entry.dotPath},
                          results |-> Append(st.results, Projected(entry, options)),
                          done |-> ~options.findAll]
                    ELSE st
         IN FindLoop(h, es, targets, options, t, e + 1, st1)

\* find(options) on the entries es: [matched, results].
Find(h, es, options) ==
    LET targets == Targets(options)
        st == FindLoop(h, es, targets, options, 1, 1,
                       [seen |-> {}, results |-> <<>>, done |-> FALSE])
    IN IF Len(targets) = 0 THEN [matched |-> FALSE, results |-> <<>>]
       ELSE [matched |-> Len(st.results) > 0, results |-> st.results]

FindDefaults ==
    [target |-> "", fallbacks |-> <<>>, matchKeys |-> TRUE, matchValues |-> TRUE,
     caseInsensitive |-> FALSE, findAll |-> FALSE, onlyTypes |-> {},
     returnFormat |-> "full", includeNull |-> TRUE, includeUndefined |-> TRUE,
     includeEmptyString |-> TRUE]

(***************************************************************************)
(* The structures the static operations are applied to.                    *)
(***************************************************************************)
Scalars == {Str("John"), Num("1"), Null}

Elems(seq) == [i \in 1..Len(seq) |-> <<IndexStr(i - 1), seq[i]>>]

Nested ==
    Scalars
    \cup {Obj(<<>>), Arr(<<>>)}
    \cup {Obj(<< <<"n", s>> >>) : s \in Scalars}
    \cup {Arr(Elems(<<s>>)) : s \in Scalars}
    \cup {Arr(Elems(<<Num("1"), Str("John")>>)),
          Arr(Elems(<<Arr(Elems(<<Num("1")>>))>>)),
          Obj(<< <<"n", Str("John")>>, <<"x", Num("1")>> >>)}

ObjectRoots ==
    {Obj(<<>>)}
    \cup {Obj(<< <<"a", c>> >>) : c \in Nested}
    \cup {Obj(<< <<"a", c>>, <<"u", d>> >>) : c \in Nested, d \in Nested}

ArrayRoots == {Arr(<<>>)} \cup {Arr(Elems(<<s>>)) : s \in Scalars}

Roots == ObjectRoots \cup ArrayRoots

NoHeap == [a \in {} |-> EmptyObject]

\* rebuild(flatten(v)) for the literal v: v and the result, as structures.
RoundTripOf(v) ==
    LET b == Build(NoHeap, v)
        r == Rebuild(b.h, Flatten(b.h, b.val))
    IN [op |-> "roundtrip", in |-> <<Deep(b.h, b.val)>>, out |-> Deep(r.h, r.val)]

RoundTripLeavesOf(v) ==
    LET b == Build(NoHeap, v)
        r == Rebuild(b.h, FlattenLeaves(b.h, b.val))
    IN [op |-> "roundtripLeaves", in |-> <<Deep(b.h, b.val)>>,
        out |-> Deep(r.h, r.val)]

\* merge(t, s) for the literals t and s: both and the result, as structures.
MergeOf(t, s) ==
    LET bt == Build(NoHeap, t)
        bs == Build(bt.h, s)
        h == Merge(bs.h, bt.val, bs.val)
    IN [op |-> "merge", in |-> <<Deep(bs.h, bt.val), Deep(bs.h, bs.val)>>,
        out |-> Deep(h, bt.val)]

Idle ==
    /\ heap = NoHeap
    /\ original = Undef
    /\ entries = <<>>
    /\ watcher = 0
    /\ timers = {}
    /\ nextTimer = 1
    /\ lastDiff = [changes |-> <<>>, fresh |-> FALSE]
    /\ calls = <<>>
    /\ dirty = FALSE
    /\ ops = 0

PureInit == Idle /\ res = [op |-> "none", in |-> <<>>, out |-> Undef]

Instance == <<heap, original, entries, watcher, timers, nextTimer, lastDiff,
              calls, dirty, ops>>

\* One static call per behaviour: the call's arguments are its only input.
Fresh == res.op = "none"

DoRoundTrip ==
    /\ Fresh
    /\ \E v \in Roots : res' = RoundTripOf(v)
    /\ UNCHANGED Instance

DoRoundTripLeaves ==
    /\ Fresh
    /\ \E v \in Roots : res' = RoundTripLeavesOf(v)
    /\ UNCHANGED Instance

\* The targets and sources merge is applied to.
MergeRoots ==
    {Obj(<<>>)}
    \cup {Obj(<< <<"a", c>> >>) : c \in Nested}
    \cup {Obj(<< <<"a", c>>, <<"u", Str("John")>> >>) : c \in Nested}

DoMerge ==
    /\ Fresh
    /\ \E t \in MergeRoots, s \in MergeRoots : res' = MergeOf(t, s)
    /\ UNCHANGED Instance

\* The instances find is called on and the options it is given.
FindRoots ==
    {Obj(<< <<"u", Obj(<< <<"n", Str("John")>>, <<"a", Num("30")>> >>)>> >>),
     Obj(<< <<"n", Str("John")>>, <<"a", Str("n")>>, <<"b", Null>> >>)}

FindTargets == {"n", "a", "John", "john", "nickname", ""}

FindFallbacks == {<<>>, <<"n">>, <<"a">>, <<"n", "a">>, <<"a", "n">>, <<"", "John">>}

FindOptions ==
    {[FindDefaults EXCEPT !.target = tg, !.fallbacks = fb, !.findAll = fa,
                          !.matchKeys = mk, !.matchValues = mv,
                          !.caseInsensitive = ci, !.includeNull = nl] :
        tg \in FindTargets, fb \in FindFallbacks, fa \in BOOLEAN, mk \in BOOLEAN,
        mv \in BOOLEAN, ci \in BOOLEAN, nl \in BOOLEAN}

\* new MithrilSync(v).find(options): the entries are flatten(v).
FindOf(v, options) ==
    LET b == Build(NoHeap, v)
    IN [op |-> "find", in |-> <<v, options>>,
        out |-> Find(b.h, Flatten(b.h, b.val), options)]

DoFind ==
    /\ Fresh
    /\ \E v \in FindRoots, options \in FindOptions : res' = FindOf(v, options)
    /\ UNCHANGED Instance

\* The targets and the changes applyChanges is applied to; a change list
\* has at most MaxChanges changes.
MaxChanges == 2

ApplyTargets ==
    {Obj(<<>>),
     Obj(<< <<"a", Num("1")>> >>),
     Obj(<< <<"a", Obj(<< <<"b", Num("1")>> >>)>> >>)}

ApplyPaths == {<<"a">>, <<"a", "b">>}

ApplyValues == {Num("2"), Null, Obj(<< <<"x", Num("1")>> >>)}

ApplyChangeSet ==
    {Change("added", p, v, Undef, Undef) : p \in ApplyPaths, v \in ApplyValues}
    \cup {Change("modified", p, Undef, Num("1"), v) : p \in ApplyPaths, v \in ApplyValues}
    \cup {Change("removed", p, Undef, Num("1"), Undef) : p \in ApplyPaths}

ApplyLists == UNION {[1..n -> ApplyChangeSet] : n \in 1..MaxChanges}

\* The change list with its container values built in the heap:
\* [h |-> heap, changes |-> the list].
RECURSIVE BuildChanges(_, _, _, _)
BuildChanges(h, lits, i, acc) ==
    IF i > Len(lits) THEN [h |-> h, changes |-> acc]
    ELSE LET v == Build(h, lits[i].value)
             o == Build(v.h, lits[i].oldValue)
             n == Build(o.h, lits[i].newValue)
         IN BuildChanges(n.h, lits, i + 1,
                         Append(acc, Change(lits[i].type, lits[i].path,
                                            v.val, o.val, n.val)))

\* What a caller sees of applyChanges: the target's structure, or the error.
Outcome(a, target) == IF a.threw THEN TypeError ELSE Deep(a.h, target)

\* applyChanges(applyChanges(t, d), d): t, the result of the inner call, d,
\* and the result of the outer call.
ApplyTwiceOf(t, d) ==
    LET bt == Build(NoHeap, t)
        bd == BuildChanges(bt.h, d, 1, <<>>)
        once == ApplyChanges(bd.h, bt.val, bd.changes, 1)
        twice == ApplyChanges(once.h, bt.val, bd.changes, 1)
    IN [op |-> "applyTwice",
        in |-> <<t, Outcome(once, bt.val), [t |-> "changes", list |-> d]>>,
        out |-> Outcome(twice, bt.val)]

DoApplyTwice ==
    /\ Fresh
    /\ \E t \in ApplyTargets, d \in ApplyLists : res' = ApplyTwiceOf(t, d)
    /\ UNCHANGED Instance

\* The structures whose entry lists watch is given, and its options.
WatchedValues ==
    {Num("1"), Str("1"), Null, Undef, Str("John"), Obj(<<>>), Arr(Elems(<<Num("1")>>)),
     Obj(<< <<"n", Str("John")>> >>), Obj(<< <<"n", Str("Jane")>> >>)}

WatchedRoots ==
    {Obj(<<>>), Obj(<< <<"n", Num("1")>>, <<"0", Num("1")>> >>)}
    \cup {Obj(<< <<"a", c>> >>) : c \in WatchedValues}
    \cup {Obj(<< <<"a", c>>, <<"b", Str("1")>> >>) : c \in WatchedValues}
    \cup {Obj(<< <<"a", Arr(Elems(<<Num("1")>>))>>, <<"b", Num("1")>> >>)}

WatchOptions == [deepCompare : BOOLEAN, strictTypes : BOOLEAN]

\* How the new entry list relates to the old one: the flattening of another
\* structure, the old list itself, or the flattening of the old structure
\* after it was changed in place.
WatchModes == {"other", "same", "changed"}

\* watch(oldEntries, newEntries, options): the lists with the heap their
\* values live in, and the changes.
WatchOf(t, s, mode, options) ==
    LET bt == Build(NoHeap, t)
        old == Flatten(bt.h, bt.val)
        bs == Build(bt.h, s)
        h == IF mode = "changed" THEN Merge(bs.h, bt.val, bs.val) ELSE bs.h
        new == IF mode = "other" THEN Flatten(h, bs.val)
               ELSE IF mode = "same" THEN old
               ELSE Flatten(h, bt.val)
    IN [op |-> "watch",
        in |-> <<[t |-> "watch", h |-> h, old |-> old, new |-> new,
                  options |-> options]>>,
        out |-> [t |-> "changes", list |-> Watch(h, old, new, options)]]

DoWatch ==
    /\ Fresh
    /\ \E t \in WatchedRoots, s \in WatchedRoots, mode \in WatchModes,
          options \in WatchOptions : res' = WatchOf(t, s, mode, options)
    /\ UNCHANGED Instance

\* flatten(v) for the literal v, by the flatten of either class: the
\* dotPaths of the entries, in the order of the result.
DotPathsOf(es) == [i \in 1..Len(es) |-> es[i].dotPath]

FlattenOrderOf(v) ==
    LET b == Build(NoHeap, v)
    IN [op |-> "flattenOrder", in |-> <<v>>,
        out |-> [t |-> "dotPaths", list |-> DotPathsOf(Flatten(b.h, b.val))]]

FlattenLeavesOrderOf(v) ==
    LET b == Build(NoHeap, v)
    IN [op |-> "flattenLeavesOrder", in |-> <<v>>,
        out |-> [t |-> "dotPaths", list |-> DotPathsOf(FlattenLeaves(b.h, b.val))]]

DoFlatten ==
    /\ Fresh
    /\ \E v \in Roots : res' = FlattenOrderOf(v)
    /\ UNCHANGED Instance

DoFlattenLeaves ==
    /\ Fresh
    /\ \E v \in Roots : res' = FlattenLeavesOrderOf(v)
    /\ UNCHANGED Instance

PureNext ==
    \/ DoFlatten
    \/ DoFlattenLeaves
    \/ DoRoundTrip
    \/ DoRoundTripLeaves
    \/ DoMerge
    \/ DoFind
    \/ DoApplyTwice
    \/ DoWatch

PureSpec == PureInit /\ [][PureNext]_vars

(***************************************************************************)
(* The instance.  original, entries and _watcher are its fields; timers    *)
(* are the interval timers that are set, each with the variables its       *)
(* closure holds.  Objects nothing refers to any more are dropped from the *)
(* heap after every operation.                                             *)
(***************************************************************************)
RefsOfEntries(es) == {es[i].value.a : i \in {j \in 1..Len(es) : IsRef(es[j].value)}}

RefsOfChanges(cs) ==
    UNION {{x.a : x \in {c.value, c.oldValue, c.newValue} \cap
                        {y \in {c.value, c.oldValue, c.newValue} : IsRef(y)}} :
           c \in Range(cs)}

RefsOfObject(o) == {o.props[i].v.a : i \in {j \in 1..Len(o.props) : IsRef(o.props[j].v)}}

RECURSIVE Reach(_, _)
Reach(h, S) ==
    LET next == S \cup UNION {RefsOfObject(h[a]) : a \in S}
    IN IF next = S THEN S ELSE Reach(h, next)

\* The heap h restricted to what the instance, its timers and the caller's
\* last diff can still reach.
Collect(h, orig, es, ts, diff) ==
    LET roots == (IF IsRef(orig) THEN {orig.a} ELSE {})
                 \cup RefsOfEntries(es)
                 \cup UNION {RefsOfEntries(tm.previousFlat) : tm \in ts}
                 \cup RefsOfChanges(diff)
        live == Reach(h, roots)
    IN [a \in live |-> h[a]]

\* The structures an instance is constructed from, and the arguments of its
\* operations.
InstanceRoots ==
    {Obj(<< <<"u", Obj(<< <<"n", Str("John")>>, <<"a", Num("30")>> >>)>> >>),
     Obj(<< <<"a", Null>> >>),
     Obj(<< <<"a", Num("1")>>, <<"b", Arr(Elems(<<Str("John")>>))>> >>)}

UpdatePaths == {<<"u", "n">>, <<"a">>, <<"x", "y">>, <<"b", "0">>}

UpdateValues == {Str("Jane"), Num("1")}

MergeSources == {Obj(<< <<"u", Obj(<< <<"x", Num("1")>> >>)>> >>),
                 Obj(<< <<"a", Str("Jane")>> >>)}

\* The number of operations a behaviour performs on its instance.
MaxOps == 4

\* structuredClone(object), as the constructor and getOriginal use it.
CloneOriginal(h, val) == StructuredClone(h, val)

\* An entry list as the caller sees it: each dotPath with its value's
\* structure, in order.
PathList(h, es) == [i \in 1..Len(es) |-> <<es[i].dotPath, Deep(h, es[i].value)>>]

\* constructor(object): the fields of the new instance.
ConstructState(obj) ==
    LET b == Build(NoHeap, obj)
        c == CloneOriginal(b.h, b.val)
        es == Flatten(c.h, b.val)
    IN /\ original = c.val
       /\ entries = es
       /\ heap = Collect(c.h, c.val, es, {}, <<>>)
       /\ watcher = 0
       /\ timers = {}
       /\ nextTimer = 1
       /\ lastDiff = [changes |-> <<>>, fresh |-> FALSE]
       /\ calls = <<>>
       /\ dirty = FALSE
       /\ ops = 0

Construct(obj) ==
    /\ ConstructState(obj)
    /\ res = [op |-> "none", in |-> <<>>, out |-> Undef]

Init == \E obj \in InstanceRoots : Construct(obj)

EntryIndex(es, dotPath) ==
    IF \E i \in 1..Len(es) : es[i].dotPath = dotPath
    THEN CHOOSE i \in 1..Len(es) :
            es[i].dotPath = dotPath /\ \A j \in 1..(i - 1) : es[j].dotPath # dotPath
    ELSE 0

\* The entries after updateEntry(dotPath, newValue): a pushed entry has no
\* key and no kind.
UpdatedEntries(es, dotPath, newValue) ==
    LET index == EntryIndex(es, dotPath)
    IN IF index # 0 THEN [es EXCEPT ![index].value = newValue]
       ELSE Append(es, [path |-> ParsePath(dotPath), dotPath |-> dotPath,
                        key |-> Undef, value |-> newValue, kind |-> "none"])

\* The entries after removeEntry(dotPath).
RemovedEntries(es, dotPath) == SelectSeq(es, LAMBDA e : e.dotPath # dotPath)

Step == ops < MaxOps /\ ops' = ops + 1

\* res is the last call made, its argument and what it returned.
Call(op, in, out) == [op |-> op, in |-> in, out |-> out]

PathArg(dotPath) == [t |-> "dotPath", path |-> dotPath]

\* A mutation of the working set: the caller's last diff is no longer a
\* diff of the current state, and the watcher has something new to see.
Mutated == lastDiff' = [lastDiff EXCEPT !.fresh = FALSE] /\ dirty' = TRUE

\* updateEntry(dotPath, newValue), the arguments drawn from paths and values.
UpdateEntryOf(paths, values) ==
    /\ Step
    /\ \E dotPath \in paths, newValue \in values :
          /\ entries' = UpdatedEntries(entries, dotPath, newValue)
          /\ res' = Call("updateEntry", <<PathArg(dotPath), newValue>>, Undef)
    /\ Mutated
    /\ UNCHANGED <<heap, original, watcher, timers, nextTimer, calls>>

UpdateEntry == UpdateEntryOf(UpdatePaths, UpdateValues)

\* removeEntry(dotPath), the argument drawn from paths.
RemoveEntryOf(paths) ==
    /\ Step
    /\ \E dotPath \in paths :
          /\ entries' = RemovedEntries(entries, dotPath)
          /\ heap' = Collect(heap, original, entries', timers, lastDiff.changes)
          /\ res' = Call("removeEntry", <<PathArg(dotPath)>>, Undef)
    /\ Mutated
    /\ UNCHANGED <<original, watcher, timers, nextTimer, calls>>

RemoveEntry == RemoveEntryOf(UpdatePaths)

\* getChanges(options): [h |-> heap afterwards, changes |-> the result].
ChangesOf(h, orig, es, options) ==
    LET r == Rebuild(h, es)
    IN [h |-> r.h,
        changes |-> Watch(r.h, Flatten(r.h, orig), Flatten(r.h, r.val), options)]

GetChanges ==
    /\ Step
    /\ LET g == ChangesOf(heap, original, entries, DefaultOptions)
       IN /\ lastDiff' = [changes |-> g.changes, fresh |-> TRUE]
          /\ heap' = Collect(g.h, original, entries, timers, g.changes)
    /\ res' = Call("getChanges", <<>>, Undef)
    /\ UNCHANGED <<original, entries, watcher, timers, nextTimer, calls, dirty>>

\* revertChanges(diff): [h |-> heap afterwards, entries |-> the new entries,
\* threw |-> whether applyChanges threw, the entries then staying as they are].
RevertedOf(h, es, diff) ==
    LET reversed == [i \in 1..Len(diff) |-> Reverse(diff[i])]
        r == Rebuild(h, es)
        a == ApplyChanges(r.h, r.val, reversed, 1)
    IN [h |-> a.h, entries |-> IF a.threw THEN es ELSE Flatten(a.h, r.val),
        threw |-> a.threw]

\* revertChanges(diff), and the state it leaves.
RevertChangesOf(diff, arg) ==
    /\ Step
    /\ LET r == RevertedOf(heap, entries, diff)
       IN /\ entries' = r.entries
          /\ heap' = Collect(r.h, original, r.entries, timers, lastDiff.changes)
          /\ res' = Call("revertChanges", <<arg>>, IF r.threw THEN TypeError ELSE Undef)
    /\ Mutated
    /\ UNCHANGED <<original, watcher, timers, nextTimer, calls>>

\* revertChanges(d), d the caller's last getChanges() result.
RevertChanges ==
    RevertChangesOf(lastDiff.changes, IF lastDiff.fresh THEN Str("fresh") ELSE Str("stale"))

MergedOfWorkingSet(h, orig, source) ==
    LET r == Rebuild(h, entries)
        h1 == Merge(r.h, r.val, source)
    IN [h |-> h1, entries |-> Flatten(h1, r.val)]

\* mergeWith(source): [h |-> heap afterwards, entries |-> the new entries].
MergedOf(h, orig, source) ==
    LET c == CloneOriginal(h, orig)
        h1 == Merge(c.h, c.val, source)
    IN [h |-> h1, entries |-> Flatten(h1, c.val)]

MergeWith ==
    /\ Step
    /\ \E src \in MergeSources :
          LET b == Build(heap, src)
              m == MergedOf(b.h, original, b.val)
          IN /\ entries' = m.entries
             /\ heap' = Collect(m.h, original, m.entries, timers, lastDiff.changes)
             /\ res' = Call("mergeWith", <<src>>, Undef)
    /\ Mutated
    /\ UNCHANGED <<original, watcher, timers, nextTimer, calls>>

\* rebuild(): the caller gets the result; what stays is what rebuild wrote
\* into the containers the entries hold.
RebuildCall ==
    /\ Step
    /\ LET r == Rebuild(heap, entries)
       IN /\ heap' = Collect(r.h, original, entries, timers, lastDiff.changes)
          /\ res' = Call("rebuild", <<>>, Deep(r.h, r.val))
    /\ UNCHANGED <<original, entries, watcher, timers, nextTimer, lastDiff, calls, dirty>>

\* getOriginal(): a deep copy of original.
GetOriginal ==
    /\ Step
    /\ LET c == CloneOriginal(heap, original)
       IN res' = Call("getOriginal", <<>>, Deep(c.h, c.val))
    /\ UNCHANGED <<heap, original, entries, watcher, timers, nextTimer, lastDiff,
                   calls, dirty>>

Next ==
    \/ UpdateEntry
    \/ RemoveEntry
    \/ GetChanges
    \/ RevertChanges
    \/ MergeWith
    \/ RebuildCall
    \/ GetOriginal

Spec == Init /\ [][Next]_vars

(***************************************************************************)
(* The watcher.  setInterval adds a timer, clearInterval removes the one   *)
(* it is given; a timer that is set fires again and again, each firing a   *)
(* run of its closure to the end (the tick).                               *)
(***************************************************************************)
\* What a callback passed to watchLive does with the changes it is given:
\* "log" only reads them, "stop" also calls stopWatch().
Callbacks == {"log", "stop"}

\* The number of change lists delivered to callbacks in a behaviour.
MaxCalls == 3

\* clearInterval(id); clearInterval(null) clears nothing.
ClearInterval(ts, id) == {tm \in ts : tm.id # id}

\* setInterval(closure): the timers with the new one, whose id is id.
SetInterval(ts, id, callback, previousFlat, options) ==
    ts \cup {[id |-> id, callback |-> callback, previousFlat |-> previousFlat,
              options |-> options]}

WatchLiveTimersNoClear(ts, handle, id, callback, previousFlat, options) ==
    SetInterval(ts, id, callback, previousFlat, options)

StopWatchTimersKeep(ts, handle) == ts

\* The timers after watchLive(callback, interval, options), given the
\* snapshot it took.
WatchLiveTimers(ts, handle, id, callback, previousFlat, options) ==
    SetInterval(ClearInterval(ts, handle), id, callback, previousFlat, options)

\* The timers after stopWatch().
StopWatchTimers(ts, handle) == ClearInterval(ts, handle)

\* Whether the tick's closure calls the callback with these changes.
Delivers(changes) == Len(changes) # 0

\* A change list as the structures it shows when it is delivered.
DeepChanges(h, changes) ==
    [i \in 1..Len(changes) |->
        [type |-> changes[i].type, path |-> changes[i].path,
         value |-> Deep(h, changes[i].value),
         oldValue |-> Deep(h, changes[i].oldValue),
         newValue |-> Deep(h, changes[i].newValue)]]

WatchLive ==
    /\ Step
    /\ \E callback \in Callbacks :
          LET r == Rebuild(heap, entries)
              previousFlat == Flatten(r.h, r.val)
          IN /\ timers' = WatchLiveTimers(timers, watcher, nextTimer, callback,
                                          previousFlat, DefaultOptions)
             /\ heap' = Collect(r.h, original, entries, timers', lastDiff.changes)
             /\ res' = Call("watchLive", <<Str(callback)>>, Undef)
    /\ watcher' = nextTimer
    /\ nextTimer' = nextTimer + 1
    /\ dirty' = FALSE
    /\ UNCHANGED <<original, entries, lastDiff, calls>>

StopWatch ==
    /\ Step
    /\ timers' = StopWatchTimers(timers, watcher)
    /\ watcher' = 0
    /\ heap' = Collect(heap, original, entries, timers', lastDiff.changes)
    /\ res' = Call("stopWatch", <<>>, Undef)
    /\ UNCHANGED <<original, entries, nextTimer, lastDiff, calls, dirty>>

\* One firing of the timer tm.  calls records each delivery: the timer, the
\* handle of the latest watchLive, the changes, and whether the working set
\* had been mutated since the retained snapshot was taken.
Tick ==
    \E tm \in timers :
       LET r == Rebuild(heap, entries)
           currentFlat == Flatten(r.h, r.val)
           changes == Watch(r.h, tm.previousFlat, currentFlat, tm.options)
           kept == (timers \ {tm}) \cup {[tm EXCEPT !.previousFlat = currentFlat]}
       IN IF Delivers(changes)
          THEN /\ Len(calls) < MaxCalls
               /\ calls' = Append(calls, [timer |-> tm.id, latest |-> nextTimer - 1,
                                          callback |-> tm.callback,
                                          changes |-> DeepChanges(r.h, changes),
                                          dirty |-> dirty])
               /\ IF tm.callback = "stop"
                  THEN /\ timers' = StopWatchTimers(kept, watcher)
                       /\ watcher' = 0
                  ELSE /\ timers' = kept
                       /\ watcher' = watcher
               /\ dirty' = FALSE
               /\ heap' = Collect(r.h, original, entries, timers', lastDiff.changes)
               /\ res' = Call("tick", <<>>, Undef)
               /\ UNCHANGED <<original, entries, nextTimer, lastDiff, ops>>
          ELSE /\ heap' = Collect(r.h, original, entries, timers, lastDiff.changes)
               /\ res' = Call("tick", <<>>, Undef)
               /\ UNCHANGED <<original, entries, watcher, timers, nextTimer, lastDiff,
                              calls, dirty, ops>>

\* The instances and the mutations the watcher is observed on.
WatchRoots ==
    {Obj(<< <<"u", Obj(<< <<"n", Str("John")>> >>)>> >>),
     Obj(<< <<"a", Null>> >>)}

WatchPaths == {<<"u", "n">>, <<"x", "y">>}

WatchValues == {Str("Jane")}

WatchInit == \E obj \in WatchRoots : Construct(obj)

WatchedUpdate == UpdateEntryOf(WatchPaths, WatchValues)

WatchedRemove == RemoveEntryOf(WatchPaths)

WatchNext ==
    \/ WatchedUpdate
    \/ WatchedRemove
    \/ WatchLive
    \/ StopWatch
    \/ Tick

WatchSpec == WatchInit /\ [][WatchNext]_vars

(***************************************************************************)
(* Malformed arguments: a root that is no container, an empty dotPath, a   *)
(* change whose type is not one of added, removed, modified.               *)
(***************************************************************************)
ScalarRoots == {Num("1"), Str("John"), Null}

MalformedRoots == ScalarRoots \cup {Obj(<< <<"a", Num("1")>> >>)}

\* new MithrilSync(object); res names the call.
MalformedInit ==
    \E obj \in MalformedRoots :
        /\ ConstructState(obj)
        /\ res = Call("constructor", <<obj>>, Undef)

MalformedPaths == {<<"">>, <<"a">>}

MalformedUpdate == UpdateEntryOf(MalformedPaths, {Str("Jane")})

\* A change as a caller writes it, type a string of the caller's choosing.
RenamedChange == Change("renamed", <<"a">>, Num("2"), Undef, Undef)

MalformedDiffs ==
    {<<RenamedChange>>,
     <<Change("added", <<"b">>, Num("2"), Undef, Undef), RenamedChange>>,
     <<Change("added", <<"b">>, Num("2"), Undef, Undef)>>}

ChangesArg(diff) == [t |-> "changes", list |-> diff]

MalformedRevert == \E diff \in MalformedDiffs : RevertChangesOf(diff, ChangesArg(diff))

\* MithrilSync.applyChanges(target, changes) on a target of the caller's.
ApplyOf(t, d) ==
    LET bt == Build(NoHeap, t)
        a == ApplyChanges(bt.h, bt.val, d, 1)
    IN Call("applyChanges", <<t, ChangesArg(d), Deep(a.h, bt.val)>>,
            IF a.threw THEN TypeError ELSE Undef)

MalformedApply ==
    /\ Step
    /\ \E t \in {Obj(<<>>), Obj(<< <<"a", Num("1")>> >>)}, d \in MalformedDiffs :
          res' = ApplyOf(t, d)
    /\ UNCHANGED <<heap, original, entries, watcher, timers, nextTimer, lastDiff,
                   calls, dirty>>

EntriesArg(h, es) == [t |-> "entries", list |-> PathList(h, es)]

\* MithrilSync.flatten(obj) on a value of the caller's.
FlattenOf(v) ==
    LET b == Build(NoHeap, v)
    IN Call("flatten", <<v>>, EntriesArg(b.h, Flatten(b.h, b.val)))

MalformedFlatten ==
    /\ Step
    /\ \E v \in MalformedRoots : res' = FlattenOf(v)
    /\ UNCHANGED <<heap, original, entries, watcher, timers, nextTimer, lastDiff,
                   calls, dirty>>

MalformedNext ==
    \/ MalformedUpdate
    \/ MalformedRevert
    \/ MalformedApply
    \/ MalformedFlatten

MalformedSpec == MalformedInit /\ [][MalformedNext]_vars

(***************************************************************************)
(* Properties.                                                             *)
(***************************************************************************)
\* The value of property k of the structure d (undefined when absent).
DeepGet(d, k) ==
    IF \E i \in 1..Len(d.items) : d.items[i][1] = k
    THEN d.items[CHOOSE i \in 1..Len(d.items) : d.items[i][1] = k][2]
    ELSE Undef

DeepKeys(d) == {d.items[i][1] : i \in 1..Len(d.items)}

\* The dotPath -> value mapping of an entry list, values as structures.
PathMap(h, es) == {<<es[i].dotPath, Deep(h, es[i].value)>> : i \in 1..Len(es)}

\* The leaves of the baseline: dotPath dp is one, with value OriginalLeaf(dp).
OriginalLeaves == {e \in Range(Flatten(heap, original)) : ~IsRef(e.value)}

IsOriginalLeaf(dp) == \E e \in OriginalLeaves : e.dotPath = dp

OriginalLeaf(dp) == (CHOOSE e \in OriginalLeaves : e.dotPath = dp).value

\* What getChanges() with default options returns in the current state.
ChangesNow == ChangesOf(heap, original, entries, DefaultOptions).changes

\* C1: rebuild(flatten(v)) is structurally equal to v for every nested
\* structure v of objects, sequences and scalars, a sequence at the root,
\* empty containers and nested sequences included (for the flatten of both
\* classes of the file).
C1_RoundTrip ==
    res.op \in {"roundtrip", "roundtripLeaves"} => res.out = res.in[1]

\* C2: after exactly one updateEntry(p, v), p an existing leaf and v not its
\* original value, getChanges() returns exactly one change: modified, path
\* p, oldValue the original value, newValue v.
C2_SingleModified ==
    (/\ ops = 1
     /\ res.op = "updateEntry"
     /\ IsOriginalLeaf(res.in[1].path)
     /\ res.in[2] # OriginalLeaf(res.in[1].path))
    => ChangesNow = <<Change("modified", res.in[1].path, Undef,
                             OriginalLeaf(res.in[1].path), res.in[2])>>

\* C3: with d = getChanges(), revertChanges(d) leaves the working set with
\* the dotPath -> value mapping of flatten(original): a getChanges() that
\* follows is empty.
C3_RevertRestores ==
    (res.op = "revertChanges" /\ res.in = <<Str("fresh")>>)
    => /\ ChangesNow = <<>>
       /\ LET r == Rebuild(heap, entries)
          IN PathMap(r.h, Flatten(r.h, r.val)) = PathMap(heap, Flatten(heap, original))

\* C4: no operation changes the structure of original.
C4_OriginalInvariant == [][Deep(heap', original') = Deep(heap, original)]_vars

\* C5: at most one polling loop is set, the one _watcher names, and every
\* callback invocation comes from the loop of the most recent watchLive.
C5_SingleLoop ==
    /\ Cardinality(timers) <= 1
    /\ \A tm \in timers : tm.id = watcher
    /\ \A i \in 1..Len(calls) : calls[i].timer = calls[i].latest

\* C5 case: watchLive was called a second time while the first loop was
\* set (a mutation and two watchLive calls are the only operations so far)
\* and the second loop's callback has been invoked.
C5_Witness ==
    /\ ops = 3
    /\ nextTimer = 3
    /\ Len(calls) >= 1
    /\ \A i \in 1..Len(calls) : calls[i].timer = 2

\* C6: once stopWatch has executed no timer is left to fire and no callback
\* is invoked until a new watchLive; a stopWatch issued from inside the
\* callback lets that tick's delivery complete and leaves the handle null.
C6_StoppedStaysQuiet ==
    [][/\ (watcher = 0 /\ watcher' = 0) => calls' = calls
       /\ watcher' = 0 => timers' = {}
       /\ (Len(calls') > Len(calls) /\ calls'[Len(calls')].callback = "stop")
          => (watcher' = 0 /\ timers' = {} /\ Len(calls') = Len(calls) + 1)]_vars

\* C6 case: a callback stopped the watch during its tick, and the working
\* set was mutated afterwards.
C6_Witness ==
    /\ Len(calls) >= 1
    /\ calls[Len(calls)].callback = "stop"
    /\ watcher = 0
    /\ timers = {}
    /\ dirty
    /\ res.op \in {"updateEntry", "removeEntry"}

\* C7: the callback is invoked only with a non-empty change list, and, the
\* retained snapshot being replaced on every delivery, no change list is
\* delivered a second time by a later tick that saw no new mutation.
C7_DeliveredOnce ==
    /\ \A i \in 1..Len(calls) : calls[i].changes # <<>>
    /\ \A i, j \in 1..Len(calls) :
          (i < j /\ ~calls[j].dirty) => calls[i].changes # calls[j].changes

\* The dotPaths of the entries find's filters keep and target search matches.
MatchesOf(v, search, options) ==
    LET b == Build(NoHeap, v)
    IN {e.dotPath : e \in {x \in Range(Flatten(b.h, b.val)) :
                              ~Skipped(x, options) /\ EntryMatches(b.h, x, search, options)}}

\* The matches of the first target of the list that has any.
WinningMatches(v, options) ==
    LET ts == Targets(options)
        hit == {i \in 1..Len(ts) : MatchesOf(v, ts[i], options) # {}}
    IN IF hit = {} THEN {}
       ELSE MatchesOf(v, ts[CHOOSE i \in hit : \A j \in hit : i <= j], options)

\* C8: every result of find is a match of the first target (target, then
\* fallbacks) that matches anything, with findAll true as with findAll false.
C8_FirstTargetWins ==
    res.op = "find"
    => \A i \in 1..Len(res.out.results) :
          res.out.results[i].dotPath \in WinningMatches(res.in[1], res.in[2])

\* C9: merge(target, source) recurses only where target[key] and source[key]
\* are both field-keyed containers; in every other case, two sequences
\* included, the result's value at key is source[key], whole.
C9_MergeReplaces ==
    res.op = "merge"
    => \A k \in DeepKeys(res.in[2]) :
          \/ DeepGet(res.in[1], k).t = "object" /\ DeepGet(res.in[2], k).t = "object"
          \/ DeepGet(res.out, k) = DeepGet(res.in[2], k)

\* C10: after removeEntry(p), p an existing leaf, rebuild() has nothing at p
\* and getChanges() reports a removed change at p.
C10_RemovedIsGone ==
    (ops = 1 /\ res.op = "removeEntry" /\ IsOriginalLeaf(res.in[1].path))
    => /\ LET r == Rebuild(heap, entries)
          IN \A e \in Range(Flatten(r.h, r.val)) : e.dotPath # res.in[1].path
       /\ \E i \in 1..Len(ChangesNow) :
             ChangesNow[i].type = "removed" /\ ChangesNow[i].path = res.in[1].path

\* C11: applyChanges(applyChanges(t, d), d) is structurally equal to
\* applyChanges(t, d), here for the change lists d with no removed change at
\* all (so none that references an already-removed path).
C11_ApplyIdempotent ==
    (/\ res.op = "applyTwice"
     /\ \A i \in 1..Len(res.in[3].list) : res.in[3].list[i].type # "removed"
     /\ res.in[2] # TypeError)
    => res.out = res.in[2]

\* The error a rejected argument is answered with.
InvalidArgument == [t |-> "error", v |-> "InvalidArgument"]

UnknownType(diff) ==
    \E i \in 1..Len(diff) : diff[i].type \notin {"added", "removed", "modified"}

\* C12: malformed input is answered with InvalidArgument and changes
\* nothing: a non-container root given to the constructor or to flatten, an
\* empty dotPath given to updateEntry, a change of unknown type given to
\* applyChanges or to revertChanges.
C12_MalformedRejected ==
    /\ (res.op = "constructor" /\ ~IsContainerLit(res.in[1]))
       => res.out = InvalidArgument
    /\ [][/\ (res'.op = "flatten" /\ ~IsContainerLit(res'.in[1]))
             => res'.out = InvalidArgument
          /\ (res'.op = "updateEntry" /\ res'.in[1].path = <<"">>)
             => (res'.out = InvalidArgument /\ entries' = entries)
          /\ (res'.op = "applyChanges" /\ UnknownType(res'.in[2].list))
             => (res'.out = InvalidArgument /\ res'.in[3] = res'.in[1])
          /\ (res'.op = "revertChanges" /\ UnknownType(res'.in[1].list))
             => (res'.out = InvalidArgument /\ entries' = entries)]_vars

\* The value the entry list es has at dotPath dp (its last entry there).
ValueAt(es, dp) ==
    es[CHOOSE i \in 1..Len(es) :
          es[i].dotPath = dp /\ \A j \in (i + 1)..Len(es) : es[j].dotPath # dp].value

PathsOf(es) == {es[i].dotPath : i \in 1..Len(es)}

RECURSIVE PreOrder(_, _, _, _)
PreOrder(lit, prefix, i, leavesOnly) ==
    IF ~IsContainerLit(lit) \/ i > Len(lit.items) THEN <<>>
    ELSE LET here == Append(prefix, lit.items[i][1])
             child == lit.items[i][2]
         IN (IF leavesOnly /\ IsContainerLit(child) THEN <<>> ELSE <<here>>)
            \o PreOrder(child, here, 1, leavesOnly)
            \o PreOrder(lit, prefix, i + 1, leavesOnly)

\* C14: flatten returns its entries in definition order: the children of a
\* container in insertion order, a node's descendants before its next
\* sibling (for the flatten of both classes of the file).
C14_DefinitionOrder ==
    /\ res.op = "flattenOrder" => res.out.list = PreOrder(res.in[1], <<>>, 1, FALSE)
    /\ res.op = "flattenLeavesOrder" => res.out.list = PreOrder(res.in[1], <<>>, 1, TRUE)

IsPrefix(p, q) == Len(p) <= Len(q) /\ SubSeq(q, 1, Len(p)) = p

\* The entries of the literal source, as flatten lists them.
SourceEntries(src) == Flatten(Build(NoHeap, src).h, Build(NoHeap, src).val)

\* A dotPath mergeWith(src) has no reason to touch: src has nothing at it
\* or below it, and nothing but containers above it.
Unmentioned(dp, src) ==
    \A e \in Range(SourceEntries(src)) :
        /\ ~IsPrefix(dp, e.dotPath)
        /\ (IsPrefix(e.dotPath, dp) => e.kind \in {"object", "array"} /\ IsRef(e.value))

\* C15: mergeWith(source) builds the working set from the baseline: after
\* it, every dotPath source does not mention is in the working set exactly
\* if it is in flatten(original), with original's value, whatever the
\* working set held before; and original is unchanged.
C15_MergeFromBaseline ==
    [][res'.op = "mergeWith"
       => /\ Deep(heap', original') = Deep(heap, original)
          /\ \A dp \in PathsOf(entries) \cup PathsOf(entries')
                       \cup PathsOf(Flatten(heap, original)) :
                Unmentioned(dp, res'.in[1])
                => /\ dp \in PathsOf(entries') <=> dp \in PathsOf(Flatten(heap, original))
                   /\ dp \in PathsOf(entries')
                      => Deep(heap', ValueAt(entries', dp))
                         = Deep(heap, ValueAt(Flatten(heap, original), dp))]_vars

\* C15 case: u.n was updated to "Jane" (the diff taken then shows it), then
\* mergeWith was called with a source that does not mention u: the working
\* set has u.n as original has it.
C15_Witness ==
    /\ res.op = "mergeWith"
    /\ ops = 3
    /\ \E i \in 1..Len(lastDiff.changes) :
          /\ lastDiff.changes[i].type = "modified"
          /\ lastDiff.changes[i].path = <<"u", "n">>
          /\ lastDiff.changes[i].newValue = Str("Jane")
    /\ Unmentioned(<<"u", "n">>, res.in[1])
    /\ ValueAt(entries, <<"u", "n">>) = Str("John")

\* The working set was mutated since the watcher's snapshot was taken, and
\* its flattening differs from that snapshot under the watcher's options.
Pending ==
    /\ watcher # 0
    /\ dirty
    /\ \E tm \in timers :
          LET r == Rebuild(heap, entries)
          IN Delivers(Watch(r.h, tm.previousFlat, Flatten(r.h, r.val), tm.options))

\* C16: while a loop is set and its ticks keep firing, a mutation that
\* makes the flattening differ from the retained snapshot is delivered to
\* the callback (the tick that fires in such a state invokes it), and after
\* a delivery the callback is not invoked again until the working set is
\* mutated again.
C16_ProgressAndQuiescence ==
    [][/\ (res'.op = "tick" /\ Pending /\ Len(calls) < MaxCalls)
          => Len(calls') = Len(calls) + 1
       /\ Len(calls') > Len(calls) => dirty]_vars

====
